---------------------------- MODULE Spec2Model ----------------------------
(***************************************************************************)
(* The sparse-regression optimizers of sindy/optimizers/optimizers.py:     *)
(* BaseOptimizer.fit, STLSQ and SR3, as a state machine over one optimizer *)
(* instance.  Real numbers are exact rationals: a coefficient vector is a  *)
(* record [num |-> <<integers>>, den |-> positive integer] in lowest       *)
(* terms, a scalar is [num, den].  The external solvers (np.linalg.lstsq,  *)
(* sklearn ridge_regression, scipy cho_factor/cho_solve) are computed by   *)
(* Cramer's rule on the normal equations they solve.                       *)
(***************************************************************************)
EXTENDS Integers, Sequences, FiniteSets, TLC

\* ------------------------------------------------------------- bounds
MaxVal == 2          \* entries of the target y range over -MaxVal..MaxVal
MaxThreshold == 3    \* threshold ranges over 0, 1/2, ..., MaxThreshold/2
MaxIterBound == 3    \* max_iter ranges over 1..MaxIterBound
MaxFits == 2         \* fit calls on one instance

\* nu, the SR3 relaxation parameter, at its default (nu=1.0)
Nu == 1

\* ------------------------------------------------------ exact arithmetic
Abs(a) == IF a < 0 THEN -a ELSE a

RECURSIVE Gcd(_, _)
Gcd(a, b) == IF b = 0 THEN a ELSE Gcd(b, a % b)

RECURSIVE SumSeq(_)
SumSeq(s) == IF s = <<>> THEN 0 ELSE Head(s) + SumSeq(Tail(s))

\* the function f on 1..n as a tuple, each entry evaluated once
RECURSIVE Tuple(_, _)
Tuple(f, n) ==
    IF n = 0 THEN <<>>
    ELSE IF n = 1 THEN <<f[1]>>
    ELSE IF n = 2 THEN <<f[1], f[2]>>
    ELSE Append(Tuple(f, n - 1), f[n])

RECURSIVE GcdSeq(_)
GcdSeq(s) == IF s = <<>> THEN 0 ELSE Gcd(Abs(Head(s)), GcdSeq(Tail(s)))

Rat(n, d) == [num |-> n, den |-> d]

\* a vector with numerators s over the denominator d (d # 0), in lowest terms
Vec(s, d) ==
    LET g == Gcd(Abs(d), GcdSeq(s))
        sg == IF d < 0 THEN -1 ELSE 1
    IN [num |-> Tuple([i \in 1..Len(s) |-> sg * (s[i] \div g)], Len(s)), den |-> Abs(d) \div g]

\* np.zeros(n)
Zeros(n) == [num |-> Tuple([i \in 1..n |-> 0], n), den |-> 1]

\* the value of a local name that is not bound yet
Unset == [num |-> <<>>, den |-> 0]

\* |v_i| >= t and |v_i| > t for the i-th entry of a vector, t a rational
AbsGe(v, i, t) == Abs(v.num[i]) * t.den >= t.num * v.den
AbsGt(v, i, t) == Abs(v.num[i]) * t.den > t.num * v.den

\* the matrix m without row 1 and column j
Minor(m, j) ==
    Tuple([a \in 1..(Len(m) - 1) |->
              Tuple([b \in 1..(Len(m) - 1) |-> m[a + 1][IF b < j THEN b ELSE b + 1]],
                    Len(m) - 1)],
          Len(m) - 1)

RECURSIVE Det(_)
Det(m) ==
    IF Len(m) = 0 THEN 1
    ELSE IF Len(m) = 1 THEN m[1][1]
    ELSE SumSeq(Tuple([j \in 1..Len(m) |->
            (IF j % 2 = 1 THEN 1 ELSE -1) * m[1][j] * Det(Minor(m, j))], Len(m)))

\* the solution w of m w = r / rden (m a nonsingular integer matrix, r an
\* integer vector), by Cramer's rule
Solve(m, r, rden) ==
    LET k == Len(m)
        rep(j) == Tuple([a \in 1..k |->
                            Tuple([b \in 1..k |-> IF b = j THEN r[a] ELSE m[a][b]], k)], k)
    IN Vec(Tuple([j \in 1..k |-> Det(rep(j))], k), Det(m) * rden)

\* ---------------------------------------------------------------- data
NSamples(xx) == Len(xx)
NFeatures(xx) == Len(xx[1])

\* x.T x and x.T y
Gram(xx) ==
    Tuple([i \in 1..NFeatures(xx) |->
              Tuple([j \in 1..NFeatures(xx) |->
                        SumSeq(Tuple([s \in 1..NSamples(xx) |-> xx[s][i] * xx[s][j]],
                                     NSamples(xx)))],
                    NFeatures(xx))],
          NFeatures(xx))
XtY(xx, yy) ==
    Tuple([i \in 1..NFeatures(xx) |->
              SumSeq(Tuple([s \in 1..NSamples(xx) |-> xx[s][i] * yy[s]], NSamples(xx)))],
          NFeatures(xx))

\* m + d * identity
PlusDiag(m, d) ==
    Tuple([a \in 1..Len(m) |->
              Tuple([b \in 1..Len(m) |-> m[a][b] + (IF a = b THEN d ELSE 0)], Len(m))],
          Len(m))

\* the design matrices fitted: the identity and the upper-triangular matrix of
\* ones (correlated features), as sequences of rows
Identity(n) == Tuple([s \in 1..n |-> Tuple([i \in 1..n |-> IF s = i THEN 1 ELSE 0], n)], n)
Triangular(n) == Tuple([s \in 1..n |-> Tuple([i \in 1..n |-> IF s <= i THEN 1 ELSE 0], n)], n)
Designs == {Identity(2), Triangular(2)}
Targets(xx) == [1..NSamples(xx) -> (-MaxVal)..MaxVal]
Datasets == UNION {{[x |-> xx, y |-> yy] : yy \in Targets(xx)} : xx \in Designs}

\* the data of an earlier, unrelated fit: X the 3x3 identity, y = [1, 2, 3]
ExampleData == [x |-> Identity(3), y |-> <<1, 2, 3>>]

\* ------------------------------------------------------ external solvers
\* np.linalg.lstsq(x, y, rcond=None)[0] for x of full column rank
Lstsq(xx, yy) == Solve(Gram(xx), XtY(xx, yy), 1)

\* sklearn ridge_regression(x, y, alpha): (x.T x + alpha I) w = x.T y
RidgeRegression(xx, yy, a) == Solve(PlusDiag(Gram(xx), a), XtY(xx, yy), 1)

\* ----------------------------------------------------------------- state
VARIABLES
    \* constructor arguments
    kind,           \* "STLSQ" or "SR3"
    threshold, alpha, max_iter, tol, thresholder,
    \* attributes of the instance
    iters, coef_, ind_, history_, coef_full_, intercept_,
    \* the running fit call: its arguments, position and _reduce's locals
    pc,             \* "idle": no call running; "loop": at the top of the for loop
    x, y,
    ind, coef, n_features_selected,     \* STLSQ._reduce
    coef_sparse, coef_full,             \* SR3._reduce
    rounds,         \* iterations of the for loop begun
    \* observation
    warned,         \* diagnostics emitted by the current (or last) fit call
    hist0,          \* len(history_) when the current (or last) fit call began
    last,           \* what the last STLSQ round of the call saw
    given,          \* the data set the caller holds
    fitNo,          \* fit calls begun on this instance
    metric          \* the last value read from the complexity property, or -1

hyper == <<kind, threshold, alpha, max_iter, tol, thresholder>>
attrs == <<iters, coef_, ind_, history_, coef_full_, intercept_>>
frame == <<pc, x, y, ind, coef, n_features_selected, coef_sparse, coef_full, rounds>>
obs == <<warned, hist0, last>>
vars == <<hyper, attrs, frame, obs, given, fitNo, metric>>

NoRound == [round |-> 0, before |-> <<>>, after |-> <<>>, tested |-> FALSE,
            baseline |-> Unset, nochange |-> FALSE]

\* the instance and the running call as one record
Cur ==
    [iters |-> iters, coef_ |-> coef_, ind_ |-> ind_, history_ |-> history_,
     coef_full_ |-> coef_full_, intercept_ |-> intercept_,
     pc |-> pc, x |-> x, y |-> y, ind |-> ind, coef |-> coef,
     n_features_selected |-> n_features_selected,
     coef_sparse |-> coef_sparse, coef_full |-> coef_full, rounds |-> rounds,
     warned |-> warned, hist0 |-> hist0, last |-> last]

\* the step to the instance and call s
Becomes(s) ==
    /\ iters' = s.iters /\ coef_' = s.coef_ /\ ind_' = s.ind_
    /\ history_' = s.history_ /\ coef_full_' = s.coef_full_
    /\ intercept_' = s.intercept_
    /\ pc' = s.pc /\ x' = s.x /\ y' = s.y /\ ind' = s.ind /\ coef' = s.coef
    /\ n_features_selected' = s.n_features_selected
    /\ coef_sparse' = s.coef_sparse /\ coef_full' = s.coef_full
    /\ rounds' = s.rounds
    /\ warned' = s.warned /\ hist0' = s.hist0 /\ last' = s.last

\* ------------------------------------------------------------ BaseOptimizer
\* BaseOptimizer.__init__: the instance as constructed
Constructed ==
    [iters |-> 0, coef_ |-> Unset, ind_ |-> <<>>, history_ |-> <<>>,
     coef_full_ |-> Unset, intercept_ |-> Rat(0, 1),
     pc |-> "idle", x |-> <<>>, y |-> <<>>, ind |-> <<>>, coef |-> Unset,
     n_features_selected |-> 0,
     coef_sparse |-> Unset, coef_full |-> Unset, rounds |-> 0,
     warned |-> {}, hist0 |-> 0, last |-> NoRound]

\* np.ones(n, dtype=bool)
Ones(n) == Tuple([i \in 1..n |-> TRUE], n)

\* np.count_nonzero / sum of a boolean mask
CountTrue(mask) == Cardinality({i \in 1..Len(mask) : mask[i]})

\* np.count_nonzero of a coefficient vector
CountNonzero(v) == Cardinality({i \in 1..Len(v.num) : v.num[i] # 0})

\* self.history_.append(self.coef_) of fit
FitHistoryStale(history, guess) == history
FitHistory(history, guess) == Append(history, guess)

\* LinearModel._set_intercept with fit_intercept=False
SetIntercept == Rat(0, 1)

\* the end of _reduce and of fit: coef_ is written (with ind_ or coef_full_), the
\* intercept is set, fit returns
Return(s, c, mask, full) ==
    [s EXCEPT !.coef_ = c, !.ind_ = mask, !.coef_full_ = full,
              !.intercept_ = SetIntercept, !.pc = "idle"]

\* fit, up to the top of _reduce's loop
FitBegin(s, data) ==
    LET n == NFeatures(data.x)
        guess == Lstsq(data.x, data.y)
    IN [s EXCEPT !.x = data.x, !.y = data.y,
                 !.iters = 0,
                 !.ind_ = Ones(n),
                 !.coef_ = guess,
                 !.history_ = FitHistory(s.history_, guess),
                 !.pc = "loop", !.rounds = 0,
                 !.ind = IF kind = "STLSQ" THEN Ones(n) ELSE s.ind,
                 !.n_features_selected = IF kind = "STLSQ" THEN n ELSE s.n_features_selected,
                 !.coef = IF kind = "STLSQ" THEN Unset ELSE s.coef,
                 !.coef_sparse = IF kind = "SR3" THEN guess ELSE s.coef_sparse,
                 !.coef_full = IF kind = "SR3" THEN Unset ELSE s.coef_full,
                 !.warned = {}, !.hist0 = Len(s.history_), !.last = NoRound]

\* the complexity property
ComplexityBig(c, icpt, thr) ==
    Cardinality({i \in 1..Len(c.num) : AbsGe(c, i, thr)})
    + (IF Abs(icpt.num) * thr.den >= thr.num * icpt.den THEN 1 ELSE 0)
Complexity(c, icpt, thr) ==
    CountNonzero(c) + (IF Abs(icpt.num) * thr.den >= thr.num * icpt.den THEN 1 ELSE 0)

\* ------------------------------------------------------------------ STLSQ
\* the indices a boolean mask selects, in order
Active(mask) ==
    LET on(i) == mask[i]
    IN SelectSeq(Tuple([i \in 1..Len(mask) |-> i], Len(mask)), on)

\* x[:, ind]
Columns(xx, mask) ==
    LET act == Active(mask)
    IN Tuple([s \in 1..Len(xx) |-> Tuple([a \in 1..Len(act) |-> xx[s][act[a]]], Len(act))],
             Len(xx))

\* c = np.zeros(dim); c[ind] = coef
ScatterPrefix(dim, mask, cf) ==
    [num |-> Tuple([i \in 1..dim |-> IF i <= Len(cf.num) THEN cf.num[i] ELSE 0], dim),
     den |-> cf.den]
Scatter(dim, mask, cf) ==
    LET pos(i) == Cardinality({j \in 1..i : mask[j]})
    IN [num |-> Tuple([i \in 1..dim |-> IF mask[i] THEN cf.num[pos(i)] ELSE 0], dim),
        den |-> cf.den]

\* big_ind = np.abs(c) >= threshold
BigIndStrict(c, thr) == Tuple([i \in 1..Len(c.num) |-> AbsGt(c, i, thr)], Len(c.num))
BigInd(c, thr) == Tuple([i \in 1..Len(c.num) |-> AbsGe(c, i, thr)], Len(c.num))

\* STLSQ._sparse_coefficients, without its append to history_
SparseCoefficients(dim, mask, cf, thr) ==
    LET c == Scatter(dim, mask, cf)
        big_ind == BigInd(c, thr)
    IN [c |-> Vec(Tuple([i \in 1..dim |-> IF big_ind[i] THEN c.num[i] ELSE 0], dim), c.den),
        big_ind |-> big_ind]

\* STLSQ._regress, without its increment of iters
Regress(xx, yy) == RidgeRegression(xx, yy, alpha)

\* last_coef of STLSQ._no_change and SR3._convergence_criterion
LastCoefZeros(history) == Zeros(Len(history[Len(history)].num))
LastCoefFirst(history) == history[1]
LastCoef(history) ==
    IF Len(history) > 1 THEN history[Len(history) - 1]
    ELSE Zeros(Len(history[Len(history)].num))

\* all(bool(i) == bool(j) for i, j in zip(this_coef, last_coef))
SameValues(this_coef, last_coef) == this_coef = last_coef
SamePattern(this_coef, last_coef) ==
    \A i \in 1..Len(this_coef.num) :
        i <= Len(last_coef.num) => ((this_coef.num[i] # 0) <=> (last_coef.num[i] # 0))

\* STLSQ._no_change
NoChangeNever(history) == FALSE
NoChange(history) == SamePattern(history[Len(history)], LastCoef(history))

\* np.count_nonzero(ind) == 0
IsDegenerate(mask) == CountTrue(mask) = 0

\* STLSQ._reduce: the support is empty at the top of the loop
STLSQDegenerateStep(s) ==
    LET c == Zeros(Len(s.ind))
    IN Return([s EXCEPT !.warned = s.warned \cup {"degenerate"}, !.coef = c],
              c, s.ind, s.coef_full_)

\* STLSQ._reduce: one round of regress, threshold and stopping test
STLSQRoundStep(s) ==
    LET sc == SparseCoefficients(NFeatures(s.x), s.ind, Regress(Columns(s.x, s.ind), s.y),
                                 threshold)
        hist == Append(s.history_, sc.c)
        same == CountTrue(sc.big_ind) = s.n_features_selected
        nochange == IF same THEN FALSE ELSE NoChange(hist)
        t == [s EXCEPT !.iters = s.iters + 1, !.history_ = hist, !.coef = sc.c,
                       !.ind = sc.big_ind, !.rounds = s.rounds + 1,
                       !.last = [round |-> s.rounds + 1, before |-> s.ind,
                                 after |-> sc.big_ind, tested |-> ~same,
                                 baseline |-> IF same THEN Unset ELSE LastCoef(hist),
                                 nochange |-> nochange]]
    IN IF same \/ nochange THEN Return(t, sc.c, sc.big_ind, s.coef_full_) ELSE t

\* STLSQ._reduce: the loop ran max_iter rounds without a break
STLSQExhaustedStep(s) ==
    LET c == IF s.coef = Unset THEN s.coef_ ELSE s.coef
    IN Return([s EXCEPT !.warned = s.warned \cup {"nonconv"}
                                   \cup (IF s.coef = Unset THEN {"nocoef"} ELSE {}),
                        !.coef = c],
              c, s.ind, s.coef_full_)

\* -------------------------------------------------------------------- SR3
\* get_prox("l0"): hard threshold, x * (|x| > threshold)
ProxL0(v, thr) ==
    Vec(Tuple([i \in 1..Len(v.num) |-> IF AbsGt(v, i, thr) THEN v.num[i] ELSE 0],
              Len(v.num)),
        v.den)

\* get_prox("l1"): soft threshold, sign(x) * max(|x| - threshold, 0)
ProxL1(v, thr) ==
    Vec(Tuple([i \in 1..Len(v.num) |->
                IF AbsGt(v, i, thr)
                THEN (IF v.num[i] < 0 THEN -1 ELSE 1)
                     * (Abs(v.num[i]) * thr.den - thr.num * v.den)
                ELSE 0],
              Len(v.num)),
        v.den * thr.den)

\* self.prox = get_prox(thresholder)
Prox(v, thr) == IF thresholder = "l0" THEN ProxL0(v, thr) ELSE ProxL1(v, thr)

\* the matrix cho_factor is given, x.T x + diag(1/nu), times nu
ChoFactor(xx) ==
    LET g == Gram(xx)
        n == NFeatures(xx)
    IN PlusDiag(Tuple([a \in 1..n |-> Tuple([b \in 1..n |-> Nu * g[a][b]], n)], n), 1)

\* SR3._update_full_coef, without its increment of iters:
\* b = x.T y + coef_sparse / nu; cho_solve(cho, b), both sides times nu
UpdateFullCoef(cho, x_transpose_y, cs) ==
    Solve(cho,
          Tuple([i \in 1..Len(cs.num) |-> Nu * x_transpose_y[i] * cs.den + cs.num[i]],
                Len(cs.num)),
          cs.den)

\* SR3._update_sparse_coef, without its append to history_
UpdateSparseCoefRaw(cf) == cf
UpdateSparseCoef(cf) == Prox(cf, threshold)

\* np.sum((this_coef - last_coef)**2), a rational
SumSquares(this_coef, last_coef) ==
    LET d == Vec(Tuple([i \in 1..Len(this_coef.num) |->
                          this_coef.num[i] * last_coef.den - last_coef.num[i] * this_coef.den],
                       Len(this_coef.num)),
                 this_coef.den * last_coef.den)
    IN Rat(SumSeq(Tuple([i \in 1..Len(d.num) |-> d.num[i] * d.num[i]], Len(d.num))),
           d.den * d.den)

\* SR3._convergence_criterion
ConvergenceCriterion(history) == SumSquares(history[Len(history)], LastCoef(history))

\* a < b for rationals
RatLt(a, b) == a.num * b.den < b.num * a.den

\* SR3._reduce: one round of full update, sparse update and tolerance test
SR3RoundStep(s) ==
    LET full == UpdateFullCoef(ChoFactor(s.x), XtY(s.x, s.y), s.coef_sparse)
        sparse == UpdateSparseCoef(full)
        hist == Append(s.history_, sparse)
        t == [s EXCEPT !.iters = s.iters + 1, !.history_ = hist, !.coef_full = full,
                       !.coef_sparse = sparse, !.rounds = s.rounds + 1]
    IN IF RatLt(ConvergenceCriterion(hist), tol) THEN Return(t, sparse, s.ind_, full) ELSE t

\* SR3._reduce: the loop ran max_iter rounds without a break
SR3ExhaustedStep(s) ==
    Return([s EXCEPT !.warned = s.warned \cup {"nonconv"}],
           s.coef_sparse, s.ind_, s.coef_full)

\* ------------------------------------------------------------------- Init
Thresholds == {Rat(t, 2) : t \in 0..MaxThreshold}
Alphas == {0, 1}
Tols == {Rat(1, 4), Rat(50, 1)}

HyperInit ==
    /\ kind \in {"STLSQ", "SR3"}
    /\ threshold \in Thresholds
    /\ max_iter \in 1..MaxIterBound
    /\ alpha \in (IF kind = "STLSQ" THEN Alphas ELSE {0})
    /\ tol \in (IF kind = "SR3" THEN Tols ELSE {Rat(1, 4)})
    /\ thresholder \in (IF kind = "SR3" THEN {"l0", "l1"} ELSE {"l0"})

Init ==
    /\ HyperInit
    /\ iters = 0 /\ coef_ = Unset /\ ind_ = <<>> /\ history_ = <<>>
    /\ coef_full_ = Unset /\ intercept_ = Rat(0, 1)
    /\ pc = "idle" /\ x = <<>> /\ y = <<>>
    /\ ind = <<>> /\ coef = Unset /\ n_features_selected = 0
    /\ coef_sparse = Unset /\ coef_full = Unset /\ rounds = 0
    /\ warned = {} /\ hist0 = 0 /\ last = NoRound
    /\ given \in Datasets
    /\ fitNo = 0
    /\ metric = -1

\* ---------------------------------------------------------------- actions
Fit(data) ==
    /\ pc = "idle"
    /\ fitNo < MaxFits
    /\ Becomes(FitBegin(Cur, data))
    /\ fitNo' = fitNo + 1
    /\ metric' = -1
    /\ UNCHANGED <<hyper, given>>

STLSQDegenerate ==
    /\ pc = "loop" /\ kind = "STLSQ" /\ rounds < max_iter
    /\ IsDegenerate(ind)
    /\ Becomes(STLSQDegenerateStep(Cur))
    /\ UNCHANGED <<hyper, given, fitNo, metric>>

STLSQRound ==
    /\ pc = "loop" /\ kind = "STLSQ" /\ rounds < max_iter
    /\ ~IsDegenerate(ind)
    /\ Becomes(STLSQRoundStep(Cur))
    /\ UNCHANGED <<hyper, given, fitNo, metric>>

STLSQExhausted ==
    /\ pc = "loop" /\ kind = "STLSQ" /\ rounds = max_iter
    /\ Becomes(STLSQExhaustedStep(Cur))
    /\ UNCHANGED <<hyper, given, fitNo, metric>>

SR3Round ==
    /\ pc = "loop" /\ kind = "SR3" /\ rounds < max_iter
    /\ Becomes(SR3RoundStep(Cur))
    /\ UNCHANGED <<hyper, given, fitNo, metric>>

SR3Exhausted ==
    /\ pc = "loop" /\ kind = "SR3" /\ rounds = max_iter
    /\ Becomes(SR3ExhaustedStep(Cur))
    /\ UNCHANGED <<hyper, given, fitNo, metric>>

\* the caller fits its data, any number of times, on an instance that may
\* have been fitted on the example data before
Next ==
    \/ fitNo = 0 /\ Fit(ExampleData)
    \/ Fit(given)
    \/ STLSQDegenerate
    \/ STLSQRound
    \/ STLSQExhausted
    \/ SR3Round
    \/ SR3Exhausted

Spec == Init /\ [][Next]_vars

\* ------------------------------------------- a fit on a fresh instance
\* _reduce from the top of its loop to its return
ReduceStep(s) ==
    IF kind = "STLSQ"
    THEN IF s.rounds = max_iter THEN STLSQExhaustedStep(s)
         ELSE IF IsDegenerate(s.ind) THEN STLSQDegenerateStep(s)
         ELSE STLSQRoundStep(s)
    ELSE IF s.rounds = max_iter THEN SR3ExhaustedStep(s)
         ELSE SR3RoundStep(s)

RECURSIVE Run(_)
Run(s) == IF s.pc = "idle" THEN s ELSE Run(ReduceStep(s))

\* what fit(data) leaves on an optimizer constructed just before
FreshFit(data) == Run(FitBegin(Constructed, data))

\* ------------------------------------- reading complexity off a model
ExampleCoef == [num |-> <<0, 40, 0, -1>>, den |-> 20]
ModelCoefs == {Vec(s, 20) : s \in [1..4 -> {-1, 0, 40}]}

InitComplexity ==
    /\ kind \in {"STLSQ", "SR3"}
    /\ threshold \in {Rat(0, 1), Rat(1, 10), Rat(1, 1)}
    /\ max_iter \in 1..MaxIterBound
    /\ alpha = 0 /\ tol = Rat(1, 4) /\ thresholder = "l0"
    /\ coef_ \in ModelCoefs
    /\ intercept_ \in {Rat(0, 1), Rat(1, 20), Rat(1, 1)}
    /\ iters = 0 /\ ind_ = <<>> /\ history_ = <<>> /\ coef_full_ = Unset
    /\ pc = "idle" /\ x = <<>> /\ y = <<>>
    /\ ind = <<>> /\ coef = Unset /\ n_features_selected = 0
    /\ coef_sparse = Unset /\ coef_full = Unset /\ rounds = 0
    /\ warned = {} /\ hist0 = 0 /\ last = NoRound
    /\ given = ExampleData
    /\ fitNo = 0
    /\ metric = -1

\* a read of the complexity property of a fitted model
GetComplexity ==
    /\ pc = "idle" /\ coef_ # Unset /\ metric = -1
    /\ metric' = Complexity(coef_, intercept_, threshold)
    /\ UNCHANGED <<hyper, attrs, frame, obs, given, fitNo>>

SpecComplexity == InitComplexity /\ [][GetComplexity]_vars

\* ================================================================ claims
\* fit has returned
Returned == pc = "idle" /\ fitNo > 0

\* the initial guess of the current fit call, the first entry it appended
Guess == history_[hist0 + 1]

\* every entry of v is smaller in magnitude than the threshold
BelowThreshold(v) == \A i \in 1..Len(v.num) : ~AbsGe(v, i, threshold)

\* a mask with no feature active
NoneActive(mask) == \A i \in 1..Len(mask) : ~mask[i]

\* C1: in STLSQ, within one fit, the support mask after every step of the loop
\* is a subset of the support mask entering it, so a dropped feature never
\* becomes active again and the support size never grows.
C1_SupportShrinks ==
    [][(kind = "STLSQ" /\ pc = "loop")
         => /\ Len(ind') = Len(ind)
            /\ \A i \in 1..Len(ind) : ind'[i] => ind[i]
            /\ CountTrue(ind') <= CountTrue(ind)
            /\ pc' = "idle" => ind_' = ind']_vars

\* C1 witness: a second round ran on a support that had lost a feature and
\* still held one.
C1_Witness ==
    /\ kind = "STLSQ" /\ last.round >= 2
    /\ CountTrue(last.before) > 0 /\ CountTrue(last.before) < Len(last.before)
    /\ CountTrue(last.after) > 0

\* C2 as stated: with the threshold above every entry of the initial guess,
\* every STLSQ fit ends Degenerate, with zero coefficients, an empty support
\* and the degenerate-support diagnostic.
C2_AlwaysDegenerate ==
    (kind = "STLSQ" /\ Returned /\ BelowThreshold(Guess))
        => /\ coef_ = Zeros(NFeatures(x))
           /\ NoneActive(ind_)
           /\ "degenerate" \in warned

\* C2 amended: with the threshold above every entry of the initial guess and of
\* the first round's ridge solution, every STLSQ fit ends with zero
\* coefficients and an empty support; the degenerate-support diagnostic is
\* emitted exactly when max_iter >= 2 and the initial guess has a nonzero
\* entry. With max_iter = 1 and a nonzero guess the fit ends with the
\* non-convergence diagnostic alone, and with an all-zero guess it ends
\* after round one with no diagnostic.
C2_DegenerateWhenSecondRound ==
    (/\ kind = "STLSQ" /\ Returned
     /\ BelowThreshold(Guess)
     /\ BelowThreshold(RidgeRegression(x, y, alpha)))
        => /\ coef_ = Zeros(NFeatures(x))
           /\ NoneActive(ind_)
           /\ iters = 1
           /\ ("degenerate" \in warned) <=> (max_iter >= 2 /\ CountNonzero(Guess) > 0)
           /\ (max_iter = 1 /\ CountNonzero(Guess) > 0) => warned = {"nonconv"}
           /\ CountNonzero(Guess) = 0 => warned = {}

\* C2 witness: a fit with the threshold above a nonzero initial guess that
\* ended Degenerate.
C2_Witness ==
    /\ kind = "STLSQ" /\ Returned /\ BelowThreshold(Guess)
    /\ CountNonzero(Guess) > 0 /\ max_iter >= 2
    /\ warned = {"degenerate"} /\ NoneActive(ind_)

\* C3: STLSQ with threshold 0 removes no feature and stops after exactly one
\* round with no diagnostic; the support stays all-true and coef_ is the ridge
\* regression of y on all the features.
C3_ZeroThreshold ==
    (kind = "STLSQ" /\ threshold.num = 0 /\ Returned)
        => /\ iters = 1
           /\ warned = {}
           /\ ind_ = Ones(NFeatures(x))
           /\ coef_ = RidgeRegression(x, y, alpha)
           /\ Len(history_) = hist0 + 2

\* C3 witness: a fit with threshold 0 and rounds to spare returned a ridge
\* solution with a zero entry that stayed in the support.
C3_Witness ==
    /\ kind = "STLSQ" /\ threshold.num = 0 /\ Returned
    /\ max_iter >= 2 /\ alpha = 1
    /\ CountNonzero(coef_) < NFeatures(x) /\ CountNonzero(coef_) > 0

\* C4: after every SR3 fit that returns, on the tolerance test or on
\* exhaustion, coef_ = prox(coef_full_, threshold), and both vectors are those
\* of the last round: coef_ is the last History entry and coef_full_ is the
\* full update computed from the entry before it.
C4_ProxOfFull ==
    (kind = "SR3" /\ Returned)
        => /\ coef_ = Prox(coef_full_, threshold)
           /\ coef_ = history_[Len(history_)]
           /\ coef_full_ = UpdateFullCoef(ChoFactor(x), XtY(x, y),
                                          history_[Len(history_) - 1])
           /\ Len(history_) = hist0 + 1 + iters

\* C4 witness: an SR3 fit that exhausted max_iter after several rounds and
\* whose thresholding changed the full vector.
C4_Witness ==
    /\ kind = "SR3" /\ Returned /\ "nonconv" \in warned
    /\ iters >= 2 /\ coef_ # coef_full_

\* C5 as stated: the complexity metric counts the coefficient entries of
\* magnitude >= threshold, plus the intercept term; for [0, 2.0, 0, -0.05] and
\* threshold 0.1 the coefficient part is 1.
C5_CountsAboveThreshold ==
    metric # -1
        => /\ metric = Cardinality({i \in 1..Len(coef_.num) : AbsGe(coef_, i, threshold)})
                       + (IF Abs(intercept_.num) * threshold.den
                               >= threshold.num * intercept_.den THEN 1 ELSE 0)
           /\ (coef_ = ExampleCoef /\ threshold = Rat(1, 10) /\ intercept_.num = 0)
                 => metric = 1

\* C5 amended: the complexity metric counts the nonzero coefficient entries,
\* whatever their magnitude, plus 1 when |intercept| >= threshold; for
\* [0, 2.0, 0, -0.05] and threshold 0.1 the coefficient part is 2.
C5_CountsNonzero ==
    metric # -1
        => /\ metric = Cardinality({i \in 1..Len(coef_.num) : coef_.num[i] # 0})
                       + (IF Abs(intercept_.num) * threshold.den
                               >= threshold.num * intercept_.den THEN 1 ELSE 0)
           /\ (coef_ = ExampleCoef /\ threshold = Rat(1, 10) /\ intercept_.num = 0)
                 => metric = 2

\* C5 witness: the metric was read off the example model.
C5_Witness ==
    /\ coef_ = ExampleCoef /\ threshold = Rat(1, 10) /\ intercept_.num = 0
    /\ metric = 2

\* C6: History is fresh in every fit: its first entry is the fit's initial
\* least-squares guess and at return it holds exactly 1 + iters snapshots.
C6_HistoryFresh ==
    Returned
        => /\ Len(history_) = 1 + iters
           /\ history_[1] = Lstsq(x, y)

\* C7: in every STLSQ round, if the support size after the round equals the
\* size entering it, the loop ends after that round: no further regression
\* runs and no diagnostic is emitted.
C7_NoRemovalConverges ==
    (/\ kind = "STLSQ" /\ last.round > 0
     /\ CountTrue(last.after) = CountTrue(last.before))
        => /\ pc = "idle"
           /\ iters = last.round
           /\ warned = {}
           /\ coef_ = history_[Len(history_)]

\* C7 witness: a second round on a reduced support removed nothing and the
\* fit returned.
C7_Witness ==
    /\ kind = "STLSQ" /\ last.round >= 2 /\ pc = "idle"
    /\ last.after = last.before
    /\ CountTrue(last.before) < Len(last.before)
    /\ coef_ # history_[Len(history_) - 1]

\* C8 as stated: in the first round the nonzero-pattern test compares against
\* an all-zero baseline.
C8_FirstRoundZeroBaseline ==
    (kind = "STLSQ" /\ last.round = 1 /\ last.tested)
        => last.baseline = Zeros(NFeatures(x))

\* C8 amended: in every round, the first included, the nonzero-pattern test
\* compares the round's thresholded vector against the History entry before
\* it, which in the first round is the initial least-squares guess of the fit
\* and never an all-zero stand-in; only the zero/nonzero pattern is compared.
C8_BaselineIsPrecedingEntry ==
    (kind = "STLSQ" /\ last.tested)
        => /\ Len(history_) >= hist0 + 2
           /\ last.baseline = history_[hist0 + last.round]
           /\ last.round = 1 => last.baseline = Lstsq(x, y)
           /\ last.nochange
                <=> \A i \in 1..NFeatures(x) :
                       (history_[hist0 + last.round + 1].num[i] # 0)
                           <=> (last.baseline.num[i] # 0)

\* C8 witness: the first round removed a feature from a guess whose entries
\* were all nonzero, so the pattern test ran against the guess and failed.
C8_Witness ==
    /\ kind = "STLSQ" /\ last.round = 1 /\ last.tested
    /\ CountNonzero(last.baseline) = NFeatures(x)
    /\ ~last.nochange /\ fitNo = 2

\* C9: in one STLSQ fit iters is at most min(max_iter, n_features) and at
\* least 1 at return; when max_iter > n_features the non-convergence
\* diagnostic is never emitted.
C9_ItersBounded ==
    (kind = "STLSQ" /\ fitNo > 0)
        => /\ iters <= max_iter
           /\ iters <= NFeatures(x)
           /\ pc = "idle" => iters >= 1
           /\ max_iter > NFeatures(x) => "nonconv" \notin warned

\* C9 witness: a fit that ran as many regressions as there are features and
\* then ended Degenerate with rounds to spare.
C9_Witness ==
    /\ kind = "STLSQ" /\ Returned
    /\ iters = NFeatures(x) /\ max_iter > NFeatures(x)
    /\ warned = {"degenerate"}

\* C10: for STLSQ and SR3, a fit on data D after any earlier fits leaves the
\* same coef_, support mask, iters and diagnostics as a fit on D of an
\* optimizer constructed fresh with the same hyperparameters, and the History
\* entries the stopping tests read were appended by the current fit.
C10_IndependentOfEarlierFits ==
    Returned
        => LET fresh == FreshFit([x |-> x, y |-> y])
           IN /\ coef_ = fresh.coef_
              /\ ind_ = fresh.ind_
              /\ iters = fresh.iters
              /\ warned = fresh.warned
              /\ Len(history_) - 1 > hist0
              /\ Len(history_) = hist0 + Len(fresh.history_)

\* C10 witness: a second fit, on data of another shape than the first, whose
\* pattern test ran with the earlier fit's entries still in History.
C10_Witness ==
    /\ Returned /\ fitNo >= 2 /\ hist0 > 0
    /\ Len(history_[1].num) # Len(coef_.num)
    /\ last.tested /\ iters >= 2

=============================================================================
